---- MODULE Spec2Model ----
(***************************************************************************)
(* zotero-arxiv-daily: one batch run of main.py.  The Zotero corpus and    *)
(* the arXiv candidates are loaded, rerank_paper scores and orders the     *)
(* candidates, the cutoff truncates the ranking, and the email is rendered *)
(* and sent.  get_zotero_corpus also saves the corpus to a local SQLite    *)
(* database; db_fault is the way that save fails in a run.                 *)
(*                                                                         *)
(* float64 values are modelled in fixed point: a weight w is the integer   *)
(* w * Scale, a cosine similarity s is s * SimScale, and a score is        *)
(* score * Scale * SimScale.                                               *)
(***************************************************************************)
EXTENDS Integers, Sequences, FiniteSets, TLC

VARIABLES
    pc,                 \* position of __main__ in main.py
    args,               \* the argparse Namespace returned by config()
    save_to_db,         \* get_zotero_corpus's parameter
    db_fault,           \* the database call that fails in this run ("none": none does)
    zot_items,          \* get_zotero_corpus's local `corpus`: the fetched items
    corpus_with_abstracts, \* get_zotero_corpus's local
    db_rows,            \* zotero_key of the rows of data/corpus.db
    log_errors,         \* the messages of logger.error, in order
    corpus,             \* main's `corpus`: the list returned by get_zotero_corpus
    candidate,          \* the list object returned by get_arxiv_paper
    papers,             \* main's `papers` binding
    sorted_corpus,      \* rerank_paper's local `corpus` after sorted()
    time_decay_weight,  \* rerank_paper's local, after normalisation
    raw_weight,         \* rerank_paper's local, before normalisation
    scores,             \* rerank_paper's local `scores`
    score_writes,       \* arxiv_id -> number of executions of `c.score = ...`
    encoder_fault,      \* how the embedding step miscounts rows ("none": it does not)
    html,               \* the value returned by render_email
    outbox,             \* the messages handed to server.sendmail, in order
    error               \* the exception that ended the run, or "none"

vars == <<pc, args, save_to_db, db_fault, zot_items, corpus_with_abstracts,
          db_rows, log_errors, corpus, candidate, papers, sorted_corpus, time_decay_weight,
          raw_weight, scores, score_writes, encoder_fault, html, outbox, error>>

\* ------------------------------------------------------------------ bounds
MaxCorpus == 3
MaxCand == 3

\* ------------------------------------------------------- fixed-point units
Scale == 10000
SimScale == 100
ScoreFactor == 10

\* ---------------------------------------------------------------- helpers
Min(a, b) == IF a <= b THEN a ELSE b

RECURSIVE SumSeq(_)
SumSeq(s) == IF s = <<>> THEN 0 ELSE Head(s) + SumSeq(Tail(s))

SeqsUpTo(S, n) == UNION {[1..k -> S] : k \in 0..n}

\* python's s[:n] for n >= 0
Prefix(s, n) == SubSeq(s, 1, Min(n, Len(s)))

\* python's s[:c] for any integer c: a negative c counts from the end
Slice(s, c) == IF c >= 0 THEN Prefix(s, c)
               ELSE IF Len(s) + c > 0 THEN SubSeq(s, 1, Len(s) + c) ELSE <<>>

\* ------------------------------------------------------------ input values
\* dateAdded strings as Zotero sends them, and one that strptime rejects
DateStrings == {"2024-01-01T00:00:00Z", "2024-01-11T00:00:00Z", "11 Jan 2024"}

\* abstractNote values; "" is an item without an abstract
Abstracts == {"", "quantum error correction", "gradient descent"}

\* arXiv summaries
Summaries == {"error correction code for qubits", "sourdough bread"}

SendEmptyValues == BOOLEAN

\* --max_paper_num values: no limit, zero, values below, at and above the
\* length of a candidate list, and a negative value other than -1
MaxPaperNums == {-2, -1, 0, 1, 2}

\* datetime.strptime(s, "%Y-%m-%dT%H:%M:%SZ"): days since 2024-01-01, or ValueError
Strptime(s) ==
    CASE s = "2024-01-01T00:00:00Z" -> 0
      [] s = "2024-01-11T00:00:00Z" -> 10
      [] OTHER -> -1

\* variant: a lenient parser that never raises
ValueErrorNever(s) == FALSE

ValueError(s) == Strptime(s) < 0

\* SentenceTransformer.encode of one text: an embedding of norm 5
Embed(t) ==
    CASE t = "quantum error correction" -> <<5, 0>>
      [] t = "gradient descent" -> <<0, 5>>
      [] t = "error correction code for qubits" -> <<4, 3>>
      [] t = "sourdough bread" -> <<-3, -4>>
      [] OTHER -> <<3, -4>>

Dot(a, b) == a[1] * b[1] + a[2] * b[2]

Norm(a) == CHOOSE n \in 0..10 : n * n = Dot(a, a)

\* encoder.similarity on two rows: the cosine, in units of 1/SimScale
CosSim(a, b) == (Dot(a, b) * SimScale) \div (Norm(a) * Norm(b))

\* ------------------------------------------------------------------- Init
\* the database call that fails: CorpusDatabase() ("create"), the
\* connection of store_corpus ("store"), the INSERT of each item ("item"),
\* get_corpus_stats ("stats")
DbFaults == {"none", "create", "store", "item", "stats"}

\* <<save_to_db, db_fault>>: main's call, which saves, with a database that works
DbWorks == {<<TRUE, "none">>}

\* every way of saving, and calls that do not save
DbCases == ({TRUE} \X DbFaults) \cup ({FALSE} \X {"none", "store"})

\* the default of --max_paper_num
MaxPaperNumDefault == {-1}

\* the state after config() (main.py:170); faults is the set of ways the
\* embedding step may miscount its rows, dbcases the <<save_to_db, db_fault>>
\* pairs and cutoffs the values of --max_paper_num
InitWith(faults, dbcases, cutoffs) ==
    /\ pc = "get_zotero_corpus"
    /\ args \in [send_empty : SendEmptyValues, max_paper_num : cutoffs]
    /\ \E d \in dbcases : save_to_db = d[1] /\ db_fault = d[2]
    /\ zot_items = <<>>
    /\ corpus_with_abstracts = <<>>
    /\ db_rows = <<>>
    /\ log_errors = <<>>
    /\ corpus = <<>>
    /\ candidate = <<>>
    /\ papers = <<>>
    /\ sorted_corpus = <<>>
    /\ time_decay_weight = <<>>
    /\ raw_weight = <<>>
    /\ scores = <<>>
    /\ score_writes = <<>>
    /\ encoder_fault \in faults
    /\ html = [content |-> "none", blocks |-> <<>>]
    /\ outbox = <<>>
    /\ error = "none"

Init == InitWith({"none"}, DbWorks, MaxPaperNums)

\* the embedding step may also return one row too few or one too many
InitFault == InitWith({"none", "drop_row", "extra_row"}, DbWorks, MaxPaperNums)

\* get_zotero_corpus with and without save_to_db, over a database that may fail
InitCorpus == InitWith({"none"}, DbCases, MaxPaperNumDefault)

\* an exception no handler catches ends the run
Raise(e) ==
    /\ pc' = "aborted"
    /\ error' = e

\* ------------------------------------------------------------ main.py:183
ZoteroItems == [dateAdded : DateStrings, abstractNote : Abstracts]

\* zot.everything(zot.items(...)): item i of the fetch carries key i
Fetched(f) == [i \in 1..Len(f) |->
                 [key |-> i, dateAdded |-> f[i].dateAdded,
                  abstractNote |-> f[i].abstractNote]]

\* [c for c in corpus if c["data"]["abstractNote"] != ""]
RECURSIVE WithAbstracts(_)
WithAbstracts(c) ==
    IF c = <<>> THEN <<>>
    ELSE IF Head(c).abstractNote # "" THEN <<Head(c)>> \o WithAbstracts(Tail(c))
    ELSE WithAbstracts(Tail(c))

\* main.py:58-62: c["paths"] = paths, set in place on each item that has an
\* abstract (the items carry no collection, so the list of paths is empty)
AddPaths(c) ==
    [i \in 1..Len(c) |->
        IF c[i].abstractNote # ""
        THEN [key |-> c[i].key, dateAdded |-> c[i].dateAdded,
              abstractNote |-> c[i].abstractNote, paths |-> <<>>]
        ELSE c[i]]

\* the exception the failing database call raises; the INSERT of an item
\* raises inside store_corpus, which catches it itself
DbException(fault) ==
    CASE fault = "create" -> "OSError"
      [] fault = "store" -> "sqlite3.OperationalError"
      [] fault = "stats" -> "sqlite3.DatabaseError"
      [] OTHER -> "none"

\* the classes derived from Exception
ExceptionClasses == {"OSError", "sqlite3.OperationalError", "sqlite3.DatabaseError"}

\* variant: except sqlite3.Error
ExceptSqliteError(e) == e \in {"sqlite3.OperationalError", "sqlite3.DatabaseError"}

\* main.py:76: except Exception as e
ExceptException(e) == e \in ExceptionClasses

Keys(c) == [i \in 1..Len(c) |-> c[i].key]

\* database.py:81-134: the rows written and the errors logged by
\* store_corpus; a failing INSERT is logged and the loop continues
StoreCorpus(c, fault) ==
    IF fault = "item"
    THEN [rows |-> <<>>, errors |-> [i \in 1..Len(c) |-> "Error storing item"]]
    ELSE [rows |-> Keys(c), errors |-> <<>>]

\* main.py:65-77: the rows and the log after the save, and the exception
\* that leaves get_zotero_corpus ("none": none does)
SaveToDb(c, save, fault) ==
    LET e == DbException(fault)
        stored == StoreCorpus(c, fault)
    IN  IF ~save
        THEN [rows |-> <<>>, errors |-> <<>>, raised |-> "none"]
        ELSE IF e = "none"
        THEN [rows |-> stored.rows, errors |-> stored.errors, raised |-> "none"]
        ELSE IF ExceptException(e)
        THEN [rows |-> IF fault = "stats" THEN stored.rows ELSE <<>>,
              errors |-> <<"Failed to save corpus to database">>,
              raised |-> "none"]
        ELSE [rows |-> IF fault = "stats" THEN stored.rows ELSE <<>>,
              errors |-> <<>>,
              raised |-> e]

\* main.py:40-77: get_zotero_corpus up to its return statement
GetZoteroCorpus ==
    /\ pc = "get_zotero_corpus"
    /\ \E f \in SeqsUpTo(ZoteroItems, MaxCorpus) :
         zot_items' = AddPaths(Fetched(f))
    /\ corpus_with_abstracts' = WithAbstracts(zot_items')
    /\ LET saved == SaveToDb(corpus_with_abstracts', save_to_db, db_fault)
       IN  /\ db_rows' = saved.rows
           /\ log_errors' = saved.errors
           /\ IF saved.raised = "none"
              THEN pc' = "main_78" /\ error' = error
              ELSE Raise(saved.raised)
    /\ UNCHANGED <<save_to_db, db_fault, args, corpus, candidate, papers,
                   sorted_corpus, time_decay_weight, raw_weight, scores,
                   score_writes, encoder_fault, html, outbox>>

\* main.py:78, main.py:183: return corpus_with_abstracts; the locals of the
\* call are gone
GetZoteroCorpusReturn ==
    /\ pc = "main_78"
    /\ corpus' = corpus_with_abstracts
    /\ zot_items' = <<>>
    /\ corpus_with_abstracts' = <<>>
    /\ pc' = "get_arxiv_paper"
    /\ UNCHANGED <<save_to_db, db_fault, db_rows, log_errors, args, candidate,
                   papers, sorted_corpus, time_decay_weight, raw_weight, scores,
                   score_writes, encoder_fault, html, outbox, error>>

\* ------------------------------------------------------------ main.py:188
\* ArxivPaper(p): a fresh paper has no score attribute
\* variant: the constructor gives every paper a default score
ArxivPaperScored(i, s) == [arxiv_id |-> i, summary |-> s, score |-> 0]

ArxivPaper(i, s) == [arxiv_id |-> i, summary |-> s]

GetArxivPaper ==
    /\ pc = "get_arxiv_paper"
    /\ \E f \in SeqsUpTo(Summaries, MaxCand) :
         /\ candidate' = [i \in 1..Len(f) |-> ArxivPaper(i, f[i])]
         /\ papers' = candidate'
         /\ score_writes' = [i \in 1..Len(f) |-> 0]
    /\ pc' = "main_189"
    /\ UNCHANGED <<save_to_db, db_fault, zot_items, corpus_with_abstracts,
                   db_rows, log_errors, args, corpus, sorted_corpus, time_decay_weight, raw_weight,
                   scores, encoder_fault, html, outbox, error>>

\* ------------------------------------------------- paper.py: rerank_paper
\* stable descending insertion of the pair p = <<key, value>> into s, which is
\* sorted by key descending: p goes after every pair whose key is >= its own
RECURSIVE InsertDesc(_, _)
InsertDesc(s, p) ==
    IF s = <<>> THEN <<p>>
    ELSE IF Head(s)[1] >= p[1] THEN <<Head(s)>> \o InsertDesc(Tail(s), p)
    ELSE <<p>> \o s

\* sorted(..., reverse=True) on the first n pairs: descending by key, pairs
\* with equal keys in their original order
RECURSIVE SortDesc(_, _)
SortDesc(ps, n) ==
    IF n = 0 THEN <<>> ELSE InsertDesc(SortDesc(ps, n - 1), ps[n])

Values(ps) == [i \in 1..Len(ps) |-> ps[i][2]]

\* paper.py:142-146
SortedCorpus(c) ==
    Values(SortDesc([i \in 1..Len(c) |-> <<Strptime(c[i].dateAdded), c[i]>>],
                    Len(c)))

\* np.log10(k) for k = 1..8, in units of 1/Scale
Log10Table == <<0, 3010, 4771, 6021, 6990, 7782, 8451, 9031>>

Log10(k) == Log10Table[k]

\* variant: the decay runs from the oldest item instead of the newest
RawWeightsOldestFirst(m) ==
    [j \in 1..m |-> (Scale * Scale) \div (Scale + Log10((m - j) + 1))]

\* paper.py:147: 1 / (1 + np.log10(np.arange(m) + 1)); entry j is rank j - 1
RawWeights(m) ==
    [j \in 1..m |-> (Scale * Scale) \div (Scale + Log10((j - 1) + 1))]

Max(a, b) == IF a >= b THEN a ELSE b

RECURSIVE MaxSeq(_)
MaxSeq(s) == IF s = <<>> THEN 0 ELSE Max(Head(s), MaxSeq(Tail(s)))

\* variant: the raw weights are used as they are
Unnormalized(w) == w

\* variant: w / w.max()
NormalizedByMax(w) ==
    [j \in 1..Len(w) |-> (w[j] * Scale) \div MaxSeq(w)]

\* paper.py:148: w / w.sum(); on the empty array no element is divided
Normalized(w) ==
    [j \in 1..Len(w) |-> (w[j] * Scale) \div SumSeq(w)]

\* the rows encoder.encode returns for the candidates' summaries
CandidateFeature(c, fault) ==
    LET rows == [i \in 1..Len(c) |-> Embed(c[i].summary)]
    IN  CASE fault = "drop_row" -> Tail(rows)
          [] fault = "extra_row" -> Append(rows, rows[Len(rows)])
          [] OTHER -> rows

\* variant: the abstracts are embedded oldest first, against weights that
\* run newest first
CorpusFeatureOldestFirst(c) ==
    [j \in 1..Len(c) |-> Embed(c[(Len(c) + 1) - j].abstractNote)]

\* paper.py:149
CorpusFeature(c) == [j \in 1..Len(c) |-> Embed(c[j].abstractNote)]

\* paper.py:151-153: sim[i][j], candidate row i against corpus row j
Similarity(cf, kf) ==
    [i \in 1..Len(cf) |-> [j \in 1..Len(kf) |-> CosSim(cf[i], kf[j])]]

\* paper.py:154: (sim * time_decay_weight).sum(axis=1) * 10
Scores(sim, w) ==
    [i \in 1..Len(sim) |->
        SumSeq([j \in 1..Len(w) |-> sim[i][j] * w[j]]) * ScoreFactor]

HasScore(p) == "score" \in DOMAIN p

\* c.score = s.item()
SetScore(p, s) == [arxiv_id |-> p.arxiv_id, summary |-> p.summary, score |-> s]

\* variant: the scored candidates are sorted in place (candidate.sort)
ZipScoresSortedInPlace(sc, c) ==
    Values(SortDesc([i \in 1..Len(c) |-> <<sc[i], SetScore(c[i], sc[i])>>],
                    Len(c)))

\* paper.py:155-156: zip stops at the shorter of scores and candidate
ZipScores(sc, c) ==
    [i \in 1..Len(c) |-> IF i <= Len(sc) THEN SetScore(c[i], sc[i]) ELSE c[i]]

ZipWrites(sc, c, w) ==
    [i \in 1..Len(c) |-> IF i <= Len(sc) THEN w[i] + 1 ELSE w[i]]

\* variant: an unstable sort, papers with equal score come out reversed
RECURSIVE InsertBefore(_, _)
InsertBefore(s, p) ==
    IF s = <<>> THEN <<p>>
    ELSE IF Head(s)[1] > p[1] THEN <<Head(s)>> \o InsertBefore(Tail(s), p)
    ELSE <<p>> \o s

RECURSIVE SortUnstable(_, _)
SortUnstable(ps, n) ==
    IF n = 0 THEN <<>> ELSE InsertBefore(SortUnstable(ps, n - 1), ps[n])

SortedByScoreUnstable(c) ==
    Values(SortUnstable([i \in 1..Len(c) |-> <<c[i].score, c[i]>>], Len(c)))

\* variant: a ranking keyed by score, one paper kept per distinct score
RECURSIVE InsertDistinct(_, _)
InsertDistinct(s, p) ==
    IF s = <<>> THEN <<p>>
    ELSE IF Head(s)[1] > p[1] THEN <<Head(s)>> \o InsertDistinct(Tail(s), p)
    ELSE IF Head(s)[1] = p[1] THEN s
    ELSE <<p>> \o s

RECURSIVE SortDistinct(_, _)
SortDistinct(ps, n) ==
    IF n = 0 THEN <<>> ELSE InsertDistinct(SortDistinct(ps, n - 1), ps[n])

SortedByScoreDistinct(c) ==
    Values(SortDistinct([i \in 1..Len(c) |-> <<c[i].score, c[i]>>], Len(c)))

\* paper.py:157
SortedByScore(c) ==
    Values(SortDesc([i \in 1..Len(c) |-> <<c[i].score, c[i]>>], Len(c)))

\* encoder.encode([]) returns an array without a row dimension; whether
\* encoder.similarity then raises or yields a matrix without entries is the
\* library's choice
EmptyEncodeOutcomes == {"raise", "no_entries"}

\* variant: the scorer is invoked whatever the candidate loader returned
HasPapersAlways(p) == TRUE

\* main.py:189: len(papers) == 0 skips the scorer
HasPapers(p) == Len(p) # 0

\* main.py:197, paper.py:134-158
RerankPaper ==
    /\ pc = "main_189"
    /\ HasPapers(papers)
    /\ UNCHANGED <<save_to_db, db_fault, zot_items, corpus_with_abstracts,
                   db_rows, log_errors, args, corpus, encoder_fault, html, outbox>>
    /\ IF \E i \in 1..Len(corpus) : ValueError(corpus[i].dateAdded)
       THEN \* paper.py:144: strptime raises inside sorted()
            /\ Raise("ValueError")
            /\ UNCHANGED <<candidate, papers, sorted_corpus, time_decay_weight,
                           raw_weight, scores, score_writes>>
       ELSE /\ sorted_corpus' = SortedCorpus(corpus)
            /\ raw_weight' = RawWeights(Len(sorted_corpus'))
            /\ time_decay_weight' = Normalized(raw_weight')
            /\ LET cf == CandidateFeature(papers, encoder_fault)
               IN  \E outcome \in EmptyEncodeOutcomes :
                     IF (cf = <<>> \/ sorted_corpus' = <<>>) /\ outcome = "raise"
                     THEN \* paper.py:151
                          /\ Raise("RuntimeError")
                          /\ UNCHANGED <<candidate, papers, scores, score_writes>>
                     ELSE /\ scores' = Scores(Similarity(cf, CorpusFeature(sorted_corpus')),
                                              time_decay_weight')
                          /\ candidate' = ZipScores(scores', papers)
                          /\ score_writes' = ZipWrites(scores', papers, score_writes)
                          /\ IF \E i \in 1..Len(candidate') : ~HasScore(candidate'[i])
                             THEN \* paper.py:157: x.score on an unscored paper
                                  /\ papers' = candidate'
                                  /\ Raise("AttributeError: score")
                             ELSE /\ papers' = SortedByScore(candidate')
                                  /\ pc' = "main_198"
                                  /\ error' = error

\* ------------------------------------------------------- main.py:189-194
NoPapersExit ==
    /\ pc = "main_189"
    /\ ~HasPapers(papers)
    /\ ~args.send_empty
    /\ pc' = "exit"
    /\ UNCHANGED <<save_to_db, db_fault, zot_items, corpus_with_abstracts,
                   db_rows, log_errors, args, corpus, candidate, papers, sorted_corpus,
                   time_decay_weight, raw_weight, scores, score_writes,
                   encoder_fault, html, outbox, error>>

NoPapersContinue ==
    /\ pc = "main_189"
    /\ ~HasPapers(papers)
    /\ args.send_empty
    /\ pc' = "main_212"
    /\ UNCHANGED <<save_to_db, db_fault, zot_items, corpus_with_abstracts,
                   db_rows, log_errors, args, corpus, candidate, papers, sorted_corpus,
                   time_decay_weight, raw_weight, scores, score_writes,
                   encoder_fault, html, outbox, error>>

\* ------------------------------------------------------- main.py:198-199
\* variant: the slice keeps the end of the list, papers[-n:]
TruncatedTail(p, max_paper_num) ==
    IF max_paper_num # -1
    THEN LET n == Len(Slice(p, max_paper_num))
         IN  SubSeq(p, (Len(p) - n) + 1, Len(p))
    ELSE p

Truncated(p, max_paper_num) ==
    IF max_paper_num # -1 THEN Slice(p, max_paper_num) ELSE p

Cutoff ==
    /\ pc = "main_198"
    /\ papers' = Truncated(papers, args.max_paper_num)
    /\ pc' = "main_200"
    /\ UNCHANGED <<save_to_db, db_fault, zot_items, corpus_with_abstracts,
                   db_rows, log_errors, args, corpus, candidate, sorted_corpus, time_decay_weight,
                   raw_weight, scores, score_writes, encoder_fault, html,
                   outbox, error>>

\* ------------------------------------------------------------ main.py:200
\* the attributes config() defines (config.py:9-15)
ConfigAttributes == {"zotero_ignore", "send_empty", "max_paper_num",
                     "arxiv_query", "smtp_server", "smtp_port", "debug"}

\* `if args.use_llm_api:` reads an attribute the Namespace may not have
UseLlmApi ==
    /\ pc = "main_200"
    /\ IF "use_llm_api" \in ConfigAttributes
       THEN pc' = "main_212" /\ error' = error
       ELSE Raise("AttributeError: use_llm_api")
    /\ UNCHANGED <<save_to_db, db_fault, zot_items, corpus_with_abstracts,
                   db_rows, log_errors, args, corpus, candidate, papers, sorted_corpus,
                   time_decay_weight, raw_weight, scores, score_writes,
                   encoder_fault, html, outbox>>

\* ------------------------------------------- construct_email.py:119-136
NotRendered == [content |-> "none", blocks |-> <<>>]

\* variant: no check for an empty list, the frame is filled with no block
RenderedEmailNoNotice(p) ==
    [content |-> "papers", blocks |-> [i \in 1..Len(p) |-> p[i].arxiv_id]]

RenderedEmail(p) ==
    IF Len(p) = 0
    THEN [content |-> "No Papers Today. Take a Rest!", blocks |-> <<>>]
    ELSE [content |-> "papers",
          blocks |-> [i \in 1..Len(p) |-> p[i].arxiv_id]]

RenderEmail ==
    /\ pc = "main_212"
    /\ html' = RenderedEmail(papers)
    /\ pc' = "main_214"
    /\ UNCHANGED <<save_to_db, db_fault, zot_items, corpus_with_abstracts,
                   db_rows, log_errors, args, corpus, candidate, papers, sorted_corpus,
                   time_decay_weight, raw_weight, scores, score_writes,
                   encoder_fault, outbox, error>>

\* ------------------------------------------- construct_email.py:139-167
SendEmail ==
    /\ pc = "main_214"
    /\ outbox' = Append(outbox, html)
    /\ pc' = "done"
    /\ UNCHANGED <<save_to_db, db_fault, zot_items, corpus_with_abstracts,
                   db_rows, log_errors, args, corpus, candidate, papers, sorted_corpus,
                   time_decay_weight, raw_weight, scores, score_writes,
                   encoder_fault, html, error>>

Next ==
    \/ GetZoteroCorpus
    \/ GetZoteroCorpusReturn
    \/ GetArxivPaper
    \/ NoPapersExit
    \/ NoPapersContinue
    \/ RerankPaper
    \/ Cutoff
    \/ UseLlmApi
    \/ RenderEmail
    \/ SendEmail

Spec == Init /\ [][Next]_vars

SpecFault == InitFault /\ [][Next]_vars

SpecCorpus == InitCorpus /\ [][Next]_vars
\* ======================================================== program points
BeforeRerank == pc \in {"get_zotero_corpus", "main_78", "get_arxiv_paper", "main_189"}

\* rerank_paper has returned its list to main
RerankReturned ==
    pc \in {"main_198", "main_200"} \/ error = "AttributeError: use_llm_api"

Terminated == pc \in {"done", "exit", "aborted"}

\* the items of the loaded corpus whose dateAdded is no timestamp
BadDates == {i \in 1..Len(corpus) : Strptime(corpus[i].dateAdded) < 0}

HasBadDate == BadDates # {}

\* the place of paper p in the list get_arxiv_paper returned
InputPosition(p) ==
    CHOOSE k \in 1..Len(candidate) : candidate[k].arxiv_id = p.arxiv_id

\* ===================================================================== C1
\* C1: the list rerank_paper returns is ordered by score descending, and two
\* candidates with equal score keep the relative order of the input list.
C1_RankedDescendingStable ==
    pc = "main_198" =>
        \A i, j \in 1..Len(papers) :
            i < j =>
                \/ papers[i].score > papers[j].score
                \/ /\ papers[i].score = papers[j].score
                   /\ InputPosition(papers[i]) < InputPosition(papers[j])

\* a returned ranking that holds a tie and that differs from the input order
C1_Witness ==
    /\ pc = "main_198"
    /\ Len(papers) = 3
    /\ papers # candidate
    /\ \E i, j \in 1..Len(papers) : i < j /\ papers[i].score = papers[j].score

\* ===================================================================== C2
\* C2: for a non-empty candidate list and a non-empty corpus the list
\* rerank_paper returns is a permutation of the input candidates, and every
\* returned candidate carries a score.
C2_RankedIsPermutation ==
    (pc = "main_198" /\ corpus # <<>>) =>
        /\ Len(papers) = Len(candidate)
        /\ \A k \in 1..Len(candidate) :
             Cardinality({i \in 1..Len(papers) :
                            /\ papers[i].arxiv_id = candidate[k].arxiv_id
                            /\ papers[i].summary = candidate[k].summary}) = 1
        /\ \A i \in 1..Len(papers) : HasScore(papers[i])

\* a returned ranking of three candidates over a corpus of two items
C2_Witness ==
    /\ pc = "main_198"
    /\ Len(corpus) >= 2
    /\ Len(papers) = 3
    /\ papers # candidate
\* ===================================================================== C3
\* C3: the cutoff is applied after ranking: once a ranking was produced, the
\* run delivers, in one email, every ranked candidate when the cutoff is -1
\* and the first min(c, n) ranked candidates, in ranked order, when the
\* cutoff is c >= 0.
C3_CutoffDelivered ==
    (Terminated /\ args.max_paper_num >= -1
        /\ candidate # <<>> /\ \A i \in 1..Len(candidate) : HasScore(candidate[i])) =>
        /\ Len(outbox) = 1
        /\ outbox[1] = RenderedEmail(
                           Truncated(SortedByScore(candidate), args.max_paper_num))

\* ===================================================================== C4
\* C4: for a non-empty corpus the raw weight at rank r is 1 / (1 + log10(r + 1)),
\* rank 0 is the most recently added item and has the maximum weight 1, and
\* the weights do not increase with the rank, before and after normalisation.
C4_WeightsMonotone ==
    (~BeforeRerank /\ sorted_corpus # <<>>) =>
        /\ Len(raw_weight) = Len(sorted_corpus)
        /\ Len(time_decay_weight) = Len(sorted_corpus)
        /\ raw_weight[1] = Scale
        /\ \A j \in 1..Len(raw_weight) :
             \* w_r * (1 + log10(r + 1)) = 1, up to the rounding of the division
             /\ raw_weight[j] * (Scale + Log10Table[j]) <= Scale * Scale
             /\ (raw_weight[j] + 1) * (Scale + Log10Table[j]) > Scale * Scale
             /\ raw_weight[j] <= raw_weight[1]
             /\ time_decay_weight[j] <= time_decay_weight[1]
             /\ Strptime(sorted_corpus[j].dateAdded)
                    <= Strptime(sorted_corpus[1].dateAdded)
        /\ \A j \in 1..(Len(raw_weight) - 1) :
             /\ raw_weight[j] >= raw_weight[j + 1]
             /\ time_decay_weight[j] >= time_decay_weight[j + 1]

\* weights computed for a corpus of at least three items of different age
C4_Witness ==
    /\ ~BeforeRerank
    /\ Len(raw_weight) >= 3
    /\ raw_weight[3] < raw_weight[2]
    /\ time_decay_weight[2] < time_decay_weight[1]
    /\ sorted_corpus # corpus

\* ===================================================================== C5
\* C5: for a non-empty corpus the normalised weights are all strictly
\* positive and sum to 1 (in fixed point: to Scale, less at most one unit
\* of rounding per weight).
C5_WeightsSumToOne ==
    (~BeforeRerank /\ sorted_corpus # <<>>) =>
        /\ \A j \in 1..Len(time_decay_weight) : time_decay_weight[j] > 0
        /\ SumSeq(time_decay_weight) <= Scale
        /\ SumSeq(time_decay_weight) >= Scale - Len(time_decay_weight)

\* normalised weights of a corpus of more than one item
C5_Witness ==
    /\ ~BeforeRerank
    /\ Len(time_decay_weight) >= 2
    /\ time_decay_weight # raw_weight

\* ===================================================================== C6
\* C6: with an empty corpus rerank_paper completes without an exception and
\* every candidate receives the score 0.
C6_EmptyCorpusScoresZero ==
    (~BeforeRerank /\ corpus = <<>> /\ candidate # <<>>) =>
        /\ error # "RuntimeError"
        /\ \A i \in 1..Len(candidate) :
             HasScore(candidate[i]) /\ candidate[i].score = 0
\* ===================================================================== C7
\* C7: with zero candidates the scoring and ranking step leaves an empty
\* ranked list and raises no error, whatever the corpus is.
C7_NoCandidatesEmptyRanking ==
    (~(pc \in {"get_zotero_corpus", "main_78", "get_arxiv_paper"}) /\ candidate = <<>>) =>
        /\ papers = <<>>
        /\ scores = <<>>
        /\ error = "none"
        /\ pc # "aborted"

\* zero candidates are past the ranking step, over an empty corpus or one
\* whose timestamps cannot all be parsed
C7_Witness ==
    /\ pc \in {"exit", "main_212"}
    /\ candidate = <<>>
    /\ corpus = <<>> \/ HasBadDate

\* ===================================================================== C8
\* C8: if the number of computed scores differs from the number of
\* candidates, the run fails inside rerank_paper; it never continues with
\* the scores it has.
C8_MismatchIsFatal ==
    (~BeforeRerank /\ error \notin {"ValueError", "RuntimeError"}
        /\ Len(scores) # Len(candidate)) =>
        /\ pc = "aborted"
        /\ error = "AttributeError: score"

\* ===================================================================== C9
\* C9 as stated: if a historical item has a timestamp that cannot be parsed,
\* a finished run has either dropped that item or aborted as a whole, and
\* when it aborted no candidate has a score, there is no ranked list and no
\* email was rendered or sent.
C9_BadTimestampDropsOrAborts ==
    (HasBadDate /\ Terminated) =>
        \/ /\ pc = "aborted"
           /\ error = "ValueError"
           /\ \A i \in 1..Len(candidate) : ~HasScore(candidate[i])
           /\ papers = candidate
           /\ html = NotRendered
           /\ outbox = <<>>
        \/ /\ RerankReturned
           /\ Len(time_decay_weight) = Len(sorted_corpus)
           /\ Len(sorted_corpus) = Len(corpus) - Cardinality(BadDates)
           /\ \A j \in 1..Len(sorted_corpus) :
                Strptime(sorted_corpus[j].dateAdded) >= 0

\* C9 as amended: if a historical item has a timestamp that cannot be parsed
\* and at least one candidate was loaded, the run aborts as a whole in
\* rerank_paper: no item is sorted or weighted, no candidate has a score, the
\* candidate list is not reordered, and no email is rendered or sent.
C9_BadTimestampAborts ==
    (HasBadDate /\ candidate # <<>> /\ ~BeforeRerank) =>
        /\ pc = "aborted"
        /\ error = "ValueError"
        /\ sorted_corpus = <<>>
        /\ time_decay_weight = <<>>
        /\ scores = <<>>
        /\ \A i \in 1..Len(candidate) : ~HasScore(candidate[i])
        /\ papers = candidate
        /\ html = NotRendered
        /\ outbox = <<>>

\* a run aborted over a corpus that mixes parseable and unparseable timestamps
C9_Witness ==
    /\ pc = "aborted"
    /\ error = "ValueError"
    /\ Len(candidate) >= 2
    /\ HasBadDate
    /\ Cardinality(BadDates) < Len(corpus)

\* ==================================================================== C10
\* C10: a candidate has no score before rerank_paper, its score is written
\* at most once, exactly once when rerank_paper has returned, and the value
\* rerank_paper computed for it is the one it carries through the cutoff and
\* to the end of the run.
C10_ScoreWrittenOnce ==
    /\ \A i \in 1..Len(candidate) :
         /\ score_writes[i] <= 1
         /\ HasScore(candidate[i]) <=> score_writes[i] = 1
         /\ BeforeRerank => ~HasScore(candidate[i])
         /\ RerankReturned => score_writes[i] = 1
         /\ HasScore(candidate[i]) => candidate[i].score = scores[i]
    /\ \A k \in 1..Len(papers) :
         /\ HasScore(papers[k]) <=> HasScore(candidate[InputPosition(papers[k])])
         /\ HasScore(papers[k]) =>
                papers[k].score = scores[InputPosition(papers[k])]

\* the run has passed the cutoff with scored candidates, some of them cut
C10_Witness ==
    /\ error = "AttributeError: use_llm_api"
    /\ Len(candidate) = 3
    /\ Len(papers) = 2
    /\ \A i \in 1..Len(candidate) : score_writes[i] = 1
    /\ \E i \in 1..Len(candidate) : candidate[i].score # 0
\* ==================================================================== C11
\* C11: the call of rerank_paper leaves the caller's corpus list as it was
\* (order, length, items), does not reorder the caller's candidate list, and
\* changes no field of a candidate other than score.
C11_InputsUnchanged ==
    [][(pc = "main_189" /\ Len(papers) # 0) =>
          /\ corpus' = corpus
          /\ Len(candidate') = Len(candidate)
          /\ \A i \in 1..Len(candidate) :
               /\ candidate'[i].arxiv_id = candidate[i].arxiv_id
               /\ candidate'[i].summary = candidate[i].summary
               /\ DOMAIN candidate'[i] \ {"score"} = DOMAIN candidate[i]]_vars

\* rerank_paper has returned a ranking that differs from the input order,
\* over a corpus that its sort reordered
C11_Witness ==
    /\ pc = "main_198"
    /\ Len(corpus) >= 2
    /\ sorted_corpus # corpus
    /\ papers # candidate
    /\ \A i \in 1..Len(candidate) : HasScore(candidate[i])
\* ==================================================================== C12
\* the place of item x in the list get_zotero_corpus returned
CorpusPosition(x) == CHOOSE k \in 1..Len(corpus) : corpus[k].key = x.key

\* C12: the corpus is sorted by dateAdded descending with the input order
\* kept among equal timestamps, the j-th weight multiplies the similarity to
\* the j-th item of that sorted sequence, and the i-th input candidate gets
\* score_i = 10 * sum_j S[i,j] * w_j.
C12_WeightsAlignedWithSortedCorpus ==
    (RerankReturned /\ corpus # <<>>) =>
        /\ Len(sorted_corpus) = Len(corpus)
        /\ \A k \in 1..Len(corpus) :
             \E j \in 1..Len(sorted_corpus) : sorted_corpus[j] = corpus[k]
        /\ \A a, b \in 1..Len(sorted_corpus) :
             a < b =>
                \/ Strptime(sorted_corpus[a].dateAdded)
                       > Strptime(sorted_corpus[b].dateAdded)
                \/ /\ sorted_corpus[a].dateAdded = sorted_corpus[b].dateAdded
                   /\ CorpusPosition(sorted_corpus[a])
                          < CorpusPosition(sorted_corpus[b])
        /\ Len(time_decay_weight) = Len(sorted_corpus)
        /\ \A i \in 1..Len(candidate) :
             candidate[i].score =
                 ScoreFactor *
                 SumSeq([j \in 1..Len(sorted_corpus) |->
                            CosSim(Embed(candidate[i].summary),
                                   Embed(sorted_corpus[j].abstractNote))
                                * time_decay_weight[j]])

\* a ranking over three items, two of them added at the same time with
\* different abstracts, which the sort moved in front of an older first item
C12_Witness ==
    /\ pc = "main_198"
    /\ Len(corpus) = 3
    /\ sorted_corpus # corpus
    /\ sorted_corpus[1].dateAdded = sorted_corpus[2].dateAdded
    /\ sorted_corpus[1].abstractNote # sorted_corpus[2].abstractNote
    /\ sorted_corpus[3].dateAdded # sorted_corpus[1].dateAdded
    /\ Len(candidate) >= 2
    /\ candidate[1].score # candidate[2].score
\* ==================================================================== C13
\* C13: when the candidate loader returns no paper the scorer is never
\* invoked; with send_empty false the run ends without rendering or sending
\* an email, with send_empty true it sends exactly one email, the "No Papers
\* Today" notice.  No run sends more than one email, and none is rendered or
\* sent while ranking and cutoff are still to come.
C13_EmptyCandidatesEmail ==
    /\ (candidate = <<>> /\ ~(pc \in {"get_zotero_corpus", "main_78", "get_arxiv_paper"})) =>
          /\ sorted_corpus = <<>> /\ raw_weight = <<>> /\ time_decay_weight = <<>>
          /\ scores = <<>>
          /\ error = "none"
          /\ pc \in {"main_189", "exit", "main_212", "main_214", "done"}
          /\ ~args.send_empty =>
                /\ pc \in {"main_189", "exit"}
                /\ html = NotRendered
                /\ outbox = <<>>
          /\ args.send_empty =>
                /\ pc # "exit"
                /\ pc = "done" =>
                      /\ Len(outbox) = 1
                      /\ outbox[1].content = "No Papers Today. Take a Rest!"
                      /\ outbox[1].blocks = <<>>
                /\ pc # "done" => outbox = <<>>
    /\ Len(outbox) <= 1
    /\ outbox # <<>> => pc = "done"
    /\ (BeforeRerank \/ pc \in {"main_198", "main_200"}) =>
          html = NotRendered /\ outbox = <<>>

\* the empty email has been sent over a corpus that holds items
C13_Witness ==
    /\ pc = "done"
    /\ candidate = <<>>
    /\ args.send_empty
    /\ Len(outbox) = 1
    /\ corpus # <<>>
\* ==================================================================== C14
\* entry [i][j] of the similarity matrix of the call that has returned
ReturnedSimilarity(i, j) ==
    CosSim(Embed(candidate[i].summary), Embed(sorted_corpus[j].abstractNote))

\* the score 10.0, in the fixed-point unit of the scores
ScoreBound == ScoreFactor * SimScale * Scale

\* C14: over a non-empty corpus of any size, with similarities in [-1, 1],
\* each candidate's score lies in [-10, 10], and in [0, 10] when all of the
\* candidate's similarities are in [0, 1]; the bound is the same for every
\* corpus size.
C14_ScoresBounded ==
    (RerankReturned /\ sorted_corpus # <<>>) =>
        /\ Len(scores) = Len(candidate)
        /\ \A i \in 1..Len(scores) :
              /\ \A j \in 1..Len(sorted_corpus) :
                    LET s == ReturnedSimilarity(i, j)
                    IN  s >= -SimScale /\ s <= SimScale
              /\ scores[i] >= -ScoreBound
              /\ scores[i] <= ScoreBound
              /\ scores[i] < 0 =>
                    \E j \in 1..Len(sorted_corpus) : ReturnedSimilarity(i, j) < 0

\* a corpus of three items, one candidate scored above 7 and one below 0
C14_Witness ==
    /\ RerankReturned
    /\ Len(sorted_corpus) >= 3
    /\ \E i \in 1..Len(scores) : scores[i] * 10 > 7 * ScoreBound
    /\ \E i \in 1..Len(scores) : scores[i] < 0
\* ==================================================================== C15
\* C15: for every configured cutoff, 0 and negative values other than -1
\* included, the list left by the cutoff, and every list an email carries,
\* is a prefix of the ranked list in ranked order: no candidate is kept
\* while a higher-ranked one is omitted, and truncation changes no order.
C15_DeliveredIsRankedPrefix ==
    /\ (pc = "main_200" \/ error = "AttributeError: use_llm_api") =>
          LET ranked == SortedByScore(candidate)
          IN  /\ Len(papers) <= Len(ranked)
              /\ \A k \in 1..Len(papers) : papers[k] = ranked[k]
              /\ args.max_paper_num = 0 => papers = <<>>
    /\ \A e \in 1..Len(outbox) :
          /\ Len(outbox[e].blocks) <= Len(candidate)
          /\ \A k \in 1..Len(outbox[e].blocks) :
                outbox[e].blocks[k] = SortedByScore(candidate)[k].arxiv_id

\* cutoff -2 on three ranked candidates has kept the best one and dropped
\* a candidate with a lower score
C15_Witness ==
    /\ error = "AttributeError: use_llm_api"
    /\ args.max_paper_num = -2
    /\ Len(candidate) = 3
    /\ Len(papers) = 1
    /\ \E i \in 1..Len(candidate) : candidate[i].score < papers[1].score
\* ==================================================================== C16
\* the fetch positions of the items that have an abstract
AbstractPositions == {i \in 1..Len(zot_items) : zot_items[i].abstractNote # ""}

\* C16: in get_zotero_corpus a failure while creating the database, storing
\* the corpus or reading its statistics is caught and logged, and the value
\* at the return statement is exactly the fetched items whose abstract is
\* non-empty, in fetch order, whatever save_to_db is and however the save
\* ends; main receives that list.
C16_DbFailureCaught ==
    /\ ~(error \in ExceptionClasses)
    /\ pc = "get_zotero_corpus" \/ pc = "main_78" \/ corpus_with_abstracts = <<>>
    /\ pc = "main_78" =>
          /\ Len(corpus_with_abstracts) = Cardinality(AbstractPositions)
          /\ \A k \in 1..Len(corpus_with_abstracts) :
                /\ corpus_with_abstracts[k].key \in AbstractPositions
                /\ corpus_with_abstracts[k] = zot_items[corpus_with_abstracts[k].key]
          /\ \A k \in 1..(Len(corpus_with_abstracts) - 1) :
                corpus_with_abstracts[k].key < corpus_with_abstracts[k + 1].key
          /\ (save_to_db /\ db_fault \in {"create", "store", "stats"}) =>
                log_errors = <<"Failed to save corpus to database">>
          /\ (save_to_db /\ db_fault = "item") =>
                Len(log_errors) = Len(corpus_with_abstracts)
          /\ ~save_to_db => (db_rows = <<>> /\ log_errors = <<>>)
    /\ ~(pc \in {"get_zotero_corpus", "main_78"}) =>
          /\ \A k \in 1..Len(corpus) : corpus[k].abstractNote # ""
          /\ \A k \in 1..(Len(corpus) - 1) : corpus[k].key < corpus[k + 1].key
          /\ (save_to_db /\ db_fault \in {"none", "stats"}) => db_rows = Keys(corpus)

\* the connection of store_corpus has failed on a fetch of three items, of
\* which the first has no abstract, and the other two are about to be returned
C16_Witness ==
    /\ pc = "main_78"
    /\ save_to_db
    /\ db_fault = "store"
    /\ Len(zot_items) = 3
    /\ zot_items[1].abstractNote = ""
    /\ Len(corpus_with_abstracts) = 2
    /\ log_errors # <<>>
    /\ db_rows = <<>>
====
